---- MODULE Spec2Model ----
(***************************************************************************)
(* Model of aws/table_aws_opensearch_reserved_instance.go: the List        *)
(* hydrate listOpenSearchReservedInstances (a paginated, streaming          *)
(* enumeration) and the Get hydrate getOpenSearchReservedInstance (a        *)
(* single keyed lookup).                                                    *)
(*                                                                          *)
(* The remote service, the SDK paginator, the client factory and the query  *)
(* data (d.StreamListItem, d.RowsRemaining, ctx) are the environment: every *)
(* answer they can give is a nondeterministic choice.                       *)
(***************************************************************************)
EXTENDS Integers, Sequences, FiniteSets, TLC

(***************************************************************************)
(* Bounds of the model.                                                     *)
(***************************************************************************)
\* at most this many remote calls in one run
MaxFetch == 3
\* at most this many records in one page returned by the remote service
MaxPageLen == 2
\* Spec draws the row limit from 0..MaxLimit (and a few other values)
MaxLimit == 3
\* SpecCeiling draws the row limit from 0..MaxCeiling (and values beyond 32 bits)
MaxCeiling == 104

(***************************************************************************)
(* Program constants.                                                       *)
(***************************************************************************)
\* MaxResults: *aws.Int32(100)
DefaultMaxResults == 100
\* if limit < 20 { input.MaxResults = *aws.Int32(20) }
MinMaxResults == 20
\* MaxResults of a request that leaves the field unset (Go zero value)
UnsetMaxResults == 0
\* what d.RowsRemaining reports for a query without a limit (math.MaxInt32)
MaxInt32 == 2147483647

(***************************************************************************)
(* Values.                                                                  *)
(***************************************************************************)
\* a nil *string (ReservedInstanceId, NextToken)
NilString == "<nil>"
\* a nil error
NilErr == "<nil>"
\* a nil interface{} result / no record
NilItem == 0

\* the continuation tokens the remote service may return: nil, empty, or a cursor
Tokens == {NilString, "", "t1", "t2"}
\* the errors a remote call may return
ApiErrors == {"api_timeout", "api_denied"}
\* the errors the client factory may return
ClientErrors == {"client_error"}

(***************************************************************************)
(* A 64-bit signed integer (d.QueryContext.Limit points to an int64), as    *)
(* its upper 32 bits (signed) and its two lower 16-bit words.               *)
(*      value = hi * 2^32 + w1 * 2^16 + w0                                  *)
(***************************************************************************)
W16 == 65536
I64(hi, w1, w0) == [hi |-> hi, w1 |-> w1, w0 |-> w0]
\* the int64 of a small natural number n < 2^16
I64Of(n) == I64(0, 0, n)
\* value >= 0
I64NonNeg(v) == v.hi >= 0
\* the value fits in 0 .. 2^31-1
I64IsSmall(v) == v.hi = 0 /\ v.w1 < W16 \div 2
\* its value then
I64Small(v) == v.w1 * W16 + v.w0
\* value >= n, for a small natural n < 2^16
I64Geq(v, n) == v.hi > 0 \/ (v.hi = 0 /\ (v.w1 > 0 \/ v.w0 >= n))
\* value < n, for a small natural n < 2^16
I64Less(v, n) == ~I64Geq(v, n)

\* int32(x): keeps the low 32 bits, two's complement
Int32(v) ==
    IF v.w1 >= W16 \div 2 THEN (v.w1 - W16) * W16 + v.w0
                          ELSE v.w1 * W16 + v.w0

\* d.QueryContext.Limit: nil or a pointer to an int64
NoLimit == [present |-> FALSE, val |-> I64Of(0)]
SomeLimit(v) == [present |-> TRUE, val |-> v]

\* d.EqualsQuals["reserved_instance_id"]: nil or a qual value
NoQual == [present |-> FALSE, str |-> ""]
SomeQual(s) == [present |-> TRUE, str |-> s]
\* QualValue.GetStringValue(): "" on a nil receiver
GetStringValue(q) == IF q.present THEN q.str ELSE ""

VARIABLES
    op,          \* which hydrate function runs: "list" or "get"
    qual,        \* d.EqualsQuals["reserved_instance_id"]
    limit,       \* d.QueryContext.Limit
    cancelled,   \* ctx is cancelled
    pc,          \* position in the function
    input,       \* the DescribeReservedInstancesInput built by the function
    paginator,   \* the paginator's state
    output,      \* output.ReservedInstances of the page being ranged over
    idx,         \* number of records of output already ranged over
    streamed,    \* the items handed to d.StreamListItem, in order
    result,      \* the returned interface{}
    err,         \* the returned error
    retLine,     \* the source line of the return statement taken, 0 before
    clientCalls, \* calls of OpenSearchClient
    clientErr,   \* the error the last call of OpenSearchClient returned
    requests,    \* the remote calls issued, in order
    responses    \* what the remote service answered, in order

vars == <<op, qual, limit, cancelled, pc, input, paginator, output, idx,
          streamed, result, err, retLine, clientCalls, clientErr, requests, responses>>

(***************************************************************************)
(* The inputs of a run.                                                     *)
(***************************************************************************)
Quals == {NoQual, SomeQual(""), SomeQual("ri-123")}
\* the row limits of Spec: absent, or 0 .. MaxLimit
Limits == {NoLimit} \cup {SomeLimit(I64Of(n)) : n \in 0..MaxLimit}
\* the row limits of SpecCeiling: absent, 0 .. MaxCeiling, and int64 values
\* around and beyond the 32-bit range (2^31-1, 2^31, 2^32-1, 2^32, 2^32+5,
\* 2^32+50, 2^32+100, 2^63-1, -1)
WideValues ==
    {I64(0, 32767, 65535), I64(0, 32768, 0), I64(0, 65535, 65535),
     I64(1, 0, 0), I64(1, 0, 5), I64(1, 0, 50), I64(1, 0, 100),
     I64(MaxInt32, 65535, 65535), I64(-1, 65535, 65535)}
CeilingLimits ==
    {NoLimit} \cup {SomeLimit(I64Of(n)) : n \in 0..MaxCeiling}
              \cup {SomeLimit(v) : v \in WideValues}

(***************************************************************************)
(* Helpers of the List function.                                            *)
(***************************************************************************)
\* PageSize without the floor of 20: a limit below 100 is used as it is
PageSize_NoFloor(lim) ==
    IF lim.present
    THEN LET l == Int32(lim.val)
         IN  IF l < DefaultMaxResults THEN l ELSE DefaultMaxResults
    ELSE DefaultMaxResults

\* PageSize without the else branch: a limit of 20 or more leaves 100
PageSize_NoClamp(lim) ==
    IF lim.present
    THEN LET l == Int32(lim.val)
         IN  IF l < MinMaxResults THEN MinMaxResults ELSE DefaultMaxResults
    ELSE DefaultMaxResults

\* PageSize whose floor of 20 applies to positive limits only
PageSize_FloorOnlyPositive(lim) ==
    IF lim.present
    THEN LET l == Int32(lim.val)
         IN  IF l < DefaultMaxResults
             THEN IF l > 0 /\ l < MinMaxResults THEN MinMaxResults ELSE l
             ELSE DefaultMaxResults
    ELSE DefaultMaxResults

\* input.MaxResults after lines 132-149
PageSize(lim) ==
    IF lim.present
    THEN LET l == Int32(lim.val)
         IN  IF l < DefaultMaxResults
             THEN IF l < MinMaxResults THEN MinMaxResults ELSE l
             ELSE DefaultMaxResults
    ELSE DefaultMaxResults

\* FilterOf of a function that never copies the qual into the input
FilterOf_Dropped(q) == NilString

\* input.ReservedInstanceId after lines 136-138
FilterOf(q) == IF q.present THEN GetStringValue(q) ELSE NilString

\* the zero DescribeReservedInstancesInput
ZeroInput == [MaxResults |-> UnsetMaxResults, ReservedInstanceId |-> NilString]
\* no paginator constructed yet
NoPaginator ==
    [firstPage |-> FALSE, nextToken |-> NilString, Limit |-> UnsetMaxResults,
     StopOnDuplicateToken |-> FALSE]

\* opensearch.NewDescribeReservedInstancesPaginator(svc, input, options)
NewPaginator(in) ==
    [firstPage |-> TRUE, nextToken |-> NilString, Limit |-> in.MaxResults,
     StopOnDuplicateToken |-> TRUE]

\* HasMorePages that takes an empty, non-nil token for a cursor
HasMorePages_EmptyIsMore(p) == p.firstPage \/ p.nextToken # NilString

\* paginator.HasMorePages()
HasMorePages(p) ==
    p.firstPage \/ (p.nextToken # NilString /\ p.nextToken # "")

\* PageRequest that sends the filter with the first page only
PageRequest_FilterFirstOnly(in, p) ==
    [ReservedInstanceId |-> IF p.firstPage THEN in.ReservedInstanceId ELSE NilString,
     MaxResults |-> p.Limit,
     NextToken |-> p.nextToken]

\* the request paginator.NextPage sends
PageRequest(in, p) ==
    [ReservedInstanceId |-> in.ReservedInstanceId, MaxResults |-> p.Limit,
     NextToken |-> p.nextToken]

\* AfterPage with StopOnDuplicateToken left unset
AfterPage_NoDuplicateCheck(p, tok) ==
    [p EXCEPT !.firstPage = FALSE, !.nextToken = tok]

\* the paginator after NextPage received a page with continuation token tok
AfterPage(p, tok) ==
    LET dup == /\ p.StopOnDuplicateToken
               /\ p.nextToken # NilString
               /\ tok # NilString
               /\ p.nextToken = tok
    IN  [p EXCEPT !.firstPage = FALSE,
                  !.nextToken = IF dup THEN NilString ELSE tok]

\* a successful / failed answer of the remote service
OkResponse(recs, tok) == [ok |-> TRUE, records |-> recs, token |-> tok, err |-> NilErr]
ErrResponse(e) == [ok |-> FALSE, records |-> <<>>, token |-> NilString, err |-> e]

\* all records the remote service has returned so far, in the order returned
RECURSIVE Fetched(_)
Fetched(resps) ==
    IF resps = <<>> THEN <<>>
    ELSE Fetched(SubSeq(resps, 1, Len(resps) - 1)) \o resps[Len(resps)].records

\* a page of k records; a record is named by its position in the stream of
\* records the remote service returns (the functions never inspect a record)
NewRecords(resps, k) == [i \in 1..k |-> Len(Fetched(resps)) + i]

\* d.RowsRemaining(ctx) with n items streamed so far; a value outside the
\* 32-bit range is saturated (the function only compares the result with 0)
RowsRemaining(ctxCancelled, lim, n) ==
    IF ctxCancelled THEN 0
    ELSE IF ~lim.present THEN MaxInt32
    ELSE IF I64IsSmall(lim.val) THEN I64Small(lim.val) - n
    ELSE IF I64NonNeg(lim.val) THEN MaxInt32
    ELSE -1

\* StopNow with the comparison written as < 0
StopNow_Negative(remaining) == remaining < 0

\* if d.RowsRemaining(ctx) == 0 { return nil, nil }
StopNow(remaining) == remaining = 0

\* RangeItem of a loop that walks the page from its end
RangeItem_Reversed(out, i) == out[Len(out) - i]

\* the element the range loop visits after i elements were visited
RangeItem(out, i) == out[i + 1]

\* KeyIsEmpty of a function that lacks the empty-key check
KeyIsEmpty_Never(key) == FALSE

\* if reservedInstanceId == "" { return nil, nil }
KeyIsEmpty(key) == key = ""

\* FirstRecord that picks the last record of the response
FirstRecord_Last(recs) == IF Len(recs) > 0 THEN recs[Len(recs)] ELSE NilItem

\* the record the lookup returns for the records of the response
FirstRecord(recs) == IF Len(recs) > 0 THEN recs[1] ELSE NilItem

(***************************************************************************)
(* Initial states.                                                          *)
(***************************************************************************)
InitWith(ops, quals, limits) ==
    /\ op \in ops
    /\ qual \in quals
    /\ limit \in (IF op = "list" THEN limits ELSE {NoLimit})
    /\ cancelled = FALSE
    /\ pc = "start"
    /\ input = ZeroInput
    /\ paginator = NoPaginator
    /\ output = <<>>
    /\ idx = 0
    /\ streamed = <<>>
    /\ result = NilItem
    /\ err = NilErr
    /\ retLine = 0
    /\ clientCalls = 0
    /\ clientErr = NilErr
    /\ requests = <<>>
    /\ responses = <<>>

Init == InitWith({"list", "get"}, Quals, Limits)

\* return result, err at source line
Return(item, e, line) ==
    /\ result' = item
    /\ err' = e
    /\ retLine' = line
    /\ pc' = "done"

(***************************************************************************)
(* listOpenSearchReservedInstances                                          *)
(***************************************************************************)
\* svc, err := OpenSearchClient(ctx, d) succeeds
ListClientOk ==
    /\ pc = "start" /\ op = "list"
    /\ clientCalls' = clientCalls + 1
    /\ clientErr' = NilErr
    /\ pc' = "input"
    /\ UNCHANGED <<op, qual, limit, cancelled, input, paginator, output, idx,
                   streamed, result, err, retLine, requests, responses>>

\* ListClientErr of a function that logs the error and goes on without return
ListClientErr_FallThrough ==
    /\ pc = "start" /\ op = "list"
    /\ clientCalls' = clientCalls + 1
    /\ \E e \in ClientErrors : clientErr' = e
    /\ pc' = "input"
    /\ UNCHANGED <<op, qual, limit, cancelled, input, paginator, output, idx,
                   streamed, result, err, retLine, requests, responses>>

\* svc, err := OpenSearchClient(ctx, d) fails: return nil, err
ListClientErr ==
    /\ pc = "start" /\ op = "list"
    /\ clientCalls' = clientCalls + 1
    /\ \E e \in ClientErrors : clientErr' = e /\ Return(NilItem, e, 129)
    /\ UNCHANGED <<op, qual, limit, cancelled, input, paginator, output, idx,
                   streamed, requests, responses>>

\* lines 132-155: build the input and the paginator
BuildInput ==
    /\ pc = "input"
    /\ input' = [MaxResults |-> PageSize(limit), ReservedInstanceId |-> FilterOf(qual)]
    /\ paginator' = NewPaginator(input')
    /\ pc' = "page"
    /\ UNCHANGED <<op, qual, limit, cancelled, output, idx, streamed, result,
                   err, retLine, clientCalls, clientErr, requests, responses>>

\* paginator.HasMorePages() is true and paginator.NextPage(ctx) returns a page
\* of k records (k in lens) and a continuation token (in toks)
NextPageOkWith(lens, toks) ==
    /\ pc = "page"
    /\ HasMorePages(paginator)
    /\ Len(requests) < MaxFetch
    /\ \E k \in lens, tok \in toks :
         LET recs == NewRecords(responses, k)
         IN  /\ requests' = Append(requests, PageRequest(input, paginator))
             /\ responses' = Append(responses, OkResponse(recs, tok))
             /\ paginator' = AfterPage(paginator, tok)
             /\ output' = recs
             /\ idx' = 0
             /\ pc' = IF k = 0 THEN "page" ELSE "range"
    /\ UNCHANGED <<op, qual, limit, cancelled, input, streamed, result, err,
                   retLine, clientCalls, clientErr>>

NextPageOk == NextPageOkWith(0..MaxPageLen, Tokens)

\* NextPageErr of a loop that logs the error and goes on with the next page
NextPageErr_Continue ==
    /\ pc = "page"
    /\ HasMorePages(paginator)
    /\ Len(requests) < MaxFetch
    /\ \E e \in ApiErrors :
         /\ requests' = Append(requests, PageRequest(input, paginator))
         /\ responses' = Append(responses, ErrResponse(e))
    /\ UNCHANGED <<op, qual, limit, cancelled, pc, input, paginator, output, idx,
                   streamed, result, err, retLine, clientCalls, clientErr>>

\* paginator.NextPage(ctx) returns an error: return nil, err
NextPageErr ==
    /\ pc = "page"
    /\ HasMorePages(paginator)
    /\ Len(requests) < MaxFetch
    /\ \E e \in ApiErrors :
         /\ requests' = Append(requests, PageRequest(input, paginator))
         /\ responses' = Append(responses, ErrResponse(e))
         /\ Return(NilItem, e, 161)
    /\ UNCHANGED <<op, qual, limit, cancelled, input, paginator, output, idx,
                   streamed, clientCalls, clientErr>>

\* LoopExit of a function that handles one page and returns (if for for)
LoopExit_Early ==
    /\ pc = "page"
    /\ ~paginator.firstPage
    /\ Return(NilItem, NilErr, 174)
    /\ UNCHANGED <<op, qual, limit, cancelled, input, paginator, output, idx,
                   streamed, clientCalls, clientErr, requests, responses>>

\* LoopExit of a loop that also consults d.RowsRemaining before each fetch
LoopExit_ChecksStop ==
    /\ pc = "page"
    /\ \/ ~HasMorePages(paginator)
       \/ RowsRemaining(cancelled, limit, Len(streamed)) = 0
    /\ Return(NilItem, NilErr, 174)
    /\ UNCHANGED <<op, qual, limit, cancelled, input, paginator, output, idx,
                   streamed, clientCalls, clientErr, requests, responses>>

\* paginator.HasMorePages() is false: return nil, nil
LoopExit ==
    /\ pc = "page"
    /\ ~HasMorePages(paginator)
    /\ Return(NilItem, NilErr, 174)
    /\ UNCHANGED <<op, qual, limit, cancelled, input, paginator, output, idx,
                   streamed, clientCalls, clientErr, requests, responses>>

\* one iteration of the range loop: d.StreamListItem(ctx, reservedInstance),
\* then the d.RowsRemaining(ctx) check
Emit ==
    /\ pc = "range"
    /\ idx < Len(output)
    /\ streamed' = Append(streamed, RangeItem(output, idx))
    /\ idx' = idx + 1
    /\ IF StopNow(RowsRemaining(cancelled, limit, Len(streamed')))
       THEN Return(NilItem, NilErr, 169)
       ELSE /\ pc' = IF idx' = Len(output) THEN "page" ELSE "range"
            /\ UNCHANGED <<result, err, retLine>>
    /\ UNCHANGED <<op, qual, limit, cancelled, input, paginator, output,
                   clientCalls, clientErr, requests, responses>>

\* the context is cancelled while the function runs
Cancel ==
    /\ pc # "done"
    /\ ~cancelled
    /\ cancelled' = TRUE
    /\ UNCHANGED <<op, qual, limit, pc, input, paginator, output, idx, streamed,
                   result, err, retLine, clientCalls, clientErr, requests, responses>>

(***************************************************************************)
(* getOpenSearchReservedInstance                                            *)
(***************************************************************************)
\* reservedInstanceId == "": return nil, nil
GetEmptyKey ==
    /\ pc = "start" /\ op = "get"
    /\ KeyIsEmpty(GetStringValue(qual))
    /\ Return(NilItem, NilErr, 185)
    /\ UNCHANGED <<op, qual, limit, cancelled, input, paginator, output, idx,
                   streamed, clientCalls, clientErr, requests, responses>>

\* svc, err := OpenSearchClient(ctx, d) succeeds; params is built
GetClientOk ==
    /\ pc = "start" /\ op = "get"
    /\ ~KeyIsEmpty(GetStringValue(qual))
    /\ clientCalls' = clientCalls + 1
    /\ clientErr' = NilErr
    /\ input' = [ZeroInput EXCEPT !.ReservedInstanceId = GetStringValue(qual)]
    /\ pc' = "call"
    /\ UNCHANGED <<op, qual, limit, cancelled, paginator, output, idx, streamed,
                   result, err, retLine, requests, responses>>

\* svc, err := OpenSearchClient(ctx, d) fails: return nil, err
GetClientErr ==
    /\ pc = "start" /\ op = "get"
    /\ ~KeyIsEmpty(GetStringValue(qual))
    /\ clientCalls' = clientCalls + 1
    /\ \E e \in ClientErrors : clientErr' = e /\ Return(NilItem, e, 192)
    /\ UNCHANGED <<op, qual, limit, cancelled, input, paginator, output, idx,
                   streamed, requests, responses>>

\* the request svc.DescribeReservedInstances(ctx, params) sends
GetRequest(in) ==
    [ReservedInstanceId |-> in.ReservedInstanceId, MaxResults |-> in.MaxResults,
     NextToken |-> NilString]

\* op, err := svc.DescribeReservedInstances(ctx, params) succeeds
GetCallOk ==
    /\ pc = "call"
    /\ Len(requests) < MaxFetch
    /\ \E k \in 0..MaxPageLen, tok \in Tokens :
         LET recs == NewRecords(responses, k)
         IN  /\ requests' = Append(requests, GetRequest(input))
             /\ responses' = Append(responses, OkResponse(recs, tok))
             /\ output' = recs
             /\ Return(FirstRecord(recs), NilErr, IF Len(recs) > 0 THEN 206 ELSE 208)
    /\ UNCHANGED <<op, qual, limit, cancelled, input, paginator, idx, streamed,
                   clientCalls, clientErr>>

\* GetCallErr of a function that logs the error and returns nil, nil
GetCallErr_Swallowed ==
    /\ pc = "call"
    /\ Len(requests) < MaxFetch
    /\ \E e \in ApiErrors :
         /\ requests' = Append(requests, GetRequest(input))
         /\ responses' = Append(responses, ErrResponse(e))
         /\ Return(NilItem, NilErr, 208)
    /\ UNCHANGED <<op, qual, limit, cancelled, input, paginator, output, idx,
                   streamed, clientCalls, clientErr>>

\* op, err := svc.DescribeReservedInstances(ctx, params) fails: return nil, err
GetCallErr ==
    /\ pc = "call"
    /\ Len(requests) < MaxFetch
    /\ \E e \in ApiErrors :
         /\ requests' = Append(requests, GetRequest(input))
         /\ responses' = Append(responses, ErrResponse(e))
         /\ Return(NilItem, e, 202)
    /\ UNCHANGED <<op, qual, limit, cancelled, input, paginator, output, idx,
                   streamed, clientCalls, clientErr>>

(***************************************************************************)
(* Specifications.                                                          *)
(***************************************************************************)
Next ==
    \/ ListClientOk \/ ListClientErr \/ BuildInput
    \/ NextPageOk \/ NextPageErr \/ LoopExit \/ Emit \/ Cancel
    \/ GetEmptyKey \/ GetClientOk \/ GetClientErr \/ GetCallOk \/ GetCallErr

Spec == Init /\ [][Next]_vars

\* The enumeration alone, over the wide range of row limits, against a remote
\* service that returns pages of at most one record and one cursor value.
InitCeiling == InitWith({"list"}, {NoQual, SomeQual("ri-123")}, CeilingLimits)

NextPageOkNarrow == NextPageOkWith({0, 1}, {NilString, "t1"})

NextCeiling ==
    \/ ListClientOk \/ ListClientErr \/ BuildInput
    \/ NextPageOkNarrow \/ NextPageErr \/ LoopExit \/ Emit \/ Cancel

SpecCeiling == InitCeiling /\ [][NextCeiling]_vars

(***************************************************************************)
(* Properties.                                                              *)
(***************************************************************************)
IsList == op = "list"
IsGet == op = "get"
Key == GetStringValue(qual)
LastResponse == responses[Len(responses)]
IsPrefix(a, b) == Len(a) <= Len(b) /\ SubSeq(b, 1, Len(a)) = a
\* the input and the paginator have been built (lines 132-155 are passed)
InputBuilt == paginator # NoPaginator
\* the row limit is present and its value lies in lo .. hi (small naturals)
LimitIn(lo, hi) ==
    /\ limit.present
    /\ I64IsSmall(limit.val)
    /\ lo <= I64Small(limit.val)
    /\ I64Small(limit.val) <= hi
\* every fetch issued so far, and the request built for the next ones, asks
\* for pages of n records
PageSizeIs(n) ==
    /\ InputBuilt => input.MaxResults = n /\ paginator.Limit = n
    /\ \A i \in 1..Len(requests) : requests[i].MaxResults = n

\* C1: with a Row Ceiling c >= 0 present (c = 0 included), the number of
\* records emitted in one enumeration never exceeds c.
C1_RowCeilingBoundsEmitted ==
    (IsList /\ limit.present /\ I64IsSmall(limit.val))
        => Len(streamed) <= I64Small(limit.val)

\* C2: when the consumer signals stop (d.RowsRemaining is 0) right after an
\* emission, the enumeration returns at once; after it no record is emitted
\* and no fetch is issued, and the record it stopped after belongs to the
\* page fetched last (only that page is over-fetched).
C2_StopEndsEnumeration ==
    /\ [][(IsList /\ streamed' # streamed
            /\ RowsRemaining(cancelled', limit', Len(streamed')) = 0)
          => (pc' = "done" /\ retLine' = 169 /\ err' = NilErr
              /\ requests' = requests)]_vars
    /\ [][(IsList /\ pc = "done")
          => (streamed' = streamed /\ requests' = requests /\ pc' = "done")]_vars
    /\ [](IsList /\ retLine = 169
          => /\ Len(responses) = Len(requests)
             /\ LastResponse.ok
             /\ \E i \in 1..Len(LastResponse.records) :
                   LastResponse.records[i] = streamed[Len(streamed)])

\* C2 witness: stopped after a record while the page still holds a record
\* and the remote service offers a further page
C2_Witness ==
    /\ IsList /\ pc = "done" /\ retLine = 169
    /\ idx < Len(output)
    /\ HasMorePages(paginator)

\* C3: the emitted records are always a prefix of the concatenation, in fetch
\* order, of the pages returned.
C3_EmittedIsPrefixOfFetched ==
    IsList => IsPrefix(streamed, Fetched(responses))

\* C3 witness: pages [1,2] then [3] were emitted as 1,2,3
C3_Witness ==
    /\ IsList /\ Len(responses) = 2
    /\ responses[1].records = <<1, 2>>
    /\ responses[2].records = <<3>>
    /\ streamed = <<1, 2, 3>>

\* the remote service returned the same (non-nil) continuation token on its
\* last two calls
ConsecutiveDuplicate ==
    /\ IsList /\ Len(responses) >= 2
    /\ LastResponse.ok /\ responses[Len(responses) - 1].ok
    /\ LastResponse.token # NilString
    /\ LastResponse.token = responses[Len(responses) - 1].token

\* C4 (as stated): a continuation token that repeats is never fetched again,
\* so that a remote service cycling through its tokens cannot keep the
\* enumeration fetching: the enumeration is never about to fetch with a
\* token it has already sent.
C4_RepeatedTokenNeverRefetched ==
    (IsList /\ pc \in {"page", "range"} /\ ~paginator.firstPage
        /\ HasMorePages(paginator))
        => \A i \in 1..Len(requests) : requests[i].NextToken # paginator.nextToken

\* C4 (amended): once the remote service has returned the same continuation
\* token on two consecutive calls, the paginator reports no more pages and no
\* further fetch is issued.
C4_ConsecutiveDuplicateStops ==
    /\ [](ConsecutiveDuplicate => ~HasMorePages(paginator))
    /\ [][ConsecutiveDuplicate => requests' = requests]_vars

\* C4 witness: the enumeration ended normally after a consecutive duplicate
C4_Witness ==
    /\ ConsecutiveDuplicate /\ LastResponse.token = "t1"
    /\ pc = "done" /\ retLine = 174

\* the last page fetch of the enumeration failed
FetchFailed == IsList /\ responses # <<>> /\ ~LastResponse.ok

\* C5: a failed page fetch ends the enumeration with that failure; no fetch
\* and no emission follows, and the failure leaves the emitted records as
\* they were.
C5_FetchFailureEndsEnumeration ==
    /\ [](FetchFailed => /\ pc = "done"
                         /\ err = LastResponse.err
                         /\ err \in ApiErrors
                         /\ result = NilItem)
    /\ [][FetchFailed => (requests' = requests /\ streamed' = streamed)]_vars
    /\ [][(IsList /\ Len(responses') > Len(responses) /\ ~responses'[Len(responses')].ok)
          => streamed' = streamed]_vars

\* C5 witness: a fetch failed after records had been emitted
C5_Witness ==
    /\ FetchFailed /\ pc = "done" /\ Len(requests) = 2 /\ Len(streamed) = 2

\* C6: a lookup with an empty key makes no client and no remote call and
\* returns no result and no error.
C6_EmptyKeyNoCall ==
    (IsGet /\ Key = "")
        => /\ requests = <<>> /\ responses = <<>> /\ clientCalls = 0
           /\ result = NilItem /\ err = NilErr
           /\ pc \in {"start", "done"}

\* C6 witness: a lookup with an empty key has returned
C6_Witness ==
    IsGet /\ Key = "" /\ qual.present /\ pc = "done"

\* C7: a lookup with a non-empty key whose client was built issues exactly
\* one remote call, for that key and without continuation token, and returns
\* the first record of the response, or no result when it holds none.
C7_LookupSingleCall ==
    (IsGet /\ Key # "")
        => /\ Len(requests) <= 1
           /\ \A i \in 1..Len(requests) :
                 /\ requests[i].ReservedInstanceId = Key
                 /\ requests[i].NextToken = NilString
           /\ (pc = "done" /\ retLine # 192) => Len(requests) = 1
           /\ (pc = "done" /\ responses # <<>> /\ responses[1].ok)
                 => /\ err = NilErr
                    /\ result = IF responses[1].records = <<>>
                                THEN NilItem
                                ELSE responses[1].records[1]

\* C7 witness: the response held two records and a continuation token; the
\* first record was returned after that one call
C7_Witness ==
    /\ IsGet /\ Key = "ri-123" /\ pc = "done"
    /\ Len(requests) = 1
    /\ Len(responses[1].records) = 2 /\ responses[1].token = "t1"
    /\ result = responses[1].records[1]

\* C8: for a Row Ceiling c with 0 < c < 20 the page size computed and used
\* by every fetch is 20.
C8_SmallCeilingPageSize ==
    (IsList /\ LimitIn(1, 19)) => PageSizeIs(20)

\* C8 witness: two fetches were issued under a ceiling of 1 or of 19
C8_Witness ==
    /\ IsList /\ (LimitIn(19, 19) \/ LimitIn(1, 1))
    /\ Len(requests) = 2 /\ requests[2].MaxResults = 20

\* C9: for a Row Ceiling c with 20 <= c < 100 the page size computed and
\* used by every fetch is c.
C9_MidCeilingPageSize ==
    (IsList /\ LimitIn(20, 99)) => PageSizeIs(I64Small(limit.val))

\* C9 witness: two fetches were issued under a ceiling of 20, 57 or 99
C9_Witness ==
    /\ IsList /\ (LimitIn(20, 20) \/ LimitIn(57, 57) \/ LimitIn(99, 99))
    /\ Len(requests) = 2 /\ requests[2].MaxResults = I64Small(limit.val)

\* C10: for a Row Ceiling that is absent or >= 100, anywhere in the int64
\* range, the page size computed and used by every fetch is 100.
C10_LargeCeilingPageSize ==
    (IsList /\ (~limit.present \/ I64Geq(limit.val, 100))) => PageSizeIs(100)


\* the first answer of the remote service is a page without continuation
\* token (nil or empty): hasMore = false
FirstPageIsLast ==
    /\ responses # <<>> /\ responses[1].ok
    /\ responses[1].token \in {NilString, ""}

\* C11 (as stated): an enumeration with filter "ri-123" and no ceiling makes
\* exactly one remote call, carrying the filter and page size 100; when that
\* call returns no record the enumeration emits nothing and succeeds.
C11_FilteredOneCall ==
    (IsList /\ qual = SomeQual("ri-123") /\ ~limit.present)
        => /\ Len(requests) <= 1
           /\ \A i \in 1..Len(requests) :
                 /\ requests[i].ReservedInstanceId = "ri-123"
                 /\ requests[i].MaxResults = 100
           /\ (pc = "done" /\ clientErr = NilErr) => Len(requests) = 1
           /\ (pc = "done" /\ Len(responses) = 1 /\ responses[1].ok
                 /\ responses[1].records = <<>>)
                 => (streamed = <<>> /\ err = NilErr)

\* C11 (amended): an enumeration with a filter and no ceiling sends the
\* filter and page size 100 on every remote call; it makes exactly one call
\* when the first page carries no continuation token; when that page is
\* empty the enumeration emits nothing and ends successfully.
C11_FilteredCalls ==
    (IsList /\ qual.present /\ ~limit.present)
        => /\ \A i \in 1..Len(requests) :
                 /\ requests[i].ReservedInstanceId = qual.str
                 /\ requests[i].MaxResults = 100
           /\ (pc = "done" /\ clientErr = NilErr) => Len(requests) >= 1
           /\ FirstPageIsLast => Len(requests) = 1
           /\ (FirstPageIsLast /\ responses[1].records = <<>>)
                 => /\ pc \in {"page", "done"}
                    /\ streamed = <<>> /\ err = NilErr /\ result = NilItem
                    /\ pc = "done" => retLine = 174

\* C11 witness: filter "ri-123", no ceiling, one call, an empty last page,
\* ended successfully
C11_Witness ==
    /\ IsList /\ qual = SomeQual("ri-123") /\ ~limit.present
    /\ Len(requests) = 1 /\ requests[1].ReservedInstanceId = "ri-123"
    /\ FirstPageIsLast /\ responses[1].records = <<>>
    /\ pc = "done" /\ err = NilErr /\ streamed = <<>>

\* the last answer of the remote service is a page without continuation
\* token (nil or empty): hasMore = false
LastPageSeen ==
    /\ IsList /\ responses # <<>> /\ LastResponse.ok
    /\ LastResponse.token \in {NilString, ""}

\* C12: after a page with hasMore = false no fetch is issued; an enumeration
\* that ends because the pages are exhausted (no fetch failed, the consumer
\* never signalled stop), or that is stopped after the last record of the
\* page fetched last, has emitted every fetched record exactly once, in
\* order, and has succeeded.
C12_LastPageTerminalNothingLost ==
    /\ [][LastPageSeen => requests' = requests]_vars
    /\ [](LastPageSeen /\ pc = "done" => err = NilErr)
    /\ []((IsList /\ pc = "done" /\ retLine = 174)
            => (streamed = Fetched(responses) /\ err = NilErr))
    /\ []((IsList /\ pc = "done" /\ retLine = 169 /\ idx = Len(output))
            => (streamed = Fetched(responses) /\ err = NilErr))
    /\ [](IsList => \A i, j \in 1..Len(streamed) :
                        streamed[i] = streamed[j] => i = j)

\* C12 witness: ceiling k, one page of k records with hasMore = false: k
\* records emitted, one fetch (here k = 2)
C12_Witness ==
    /\ LimitIn(2, 2) /\ LastPageSeen /\ pc = "done"
    /\ Len(requests) = 1 /\ Len(responses[1].records) = 2
    /\ streamed = <<1, 2>> /\ err = NilErr

\* C13: when OpenSearchClient fails, the enumeration or lookup ends with that
\* error; no remote call is made, nothing is emitted or returned.
C13_SetupFailureNoCall ==
    clientErr # NilErr
        => /\ pc = "done"
           /\ err = clientErr
           /\ result = NilItem
           /\ requests = <<>> /\ responses = <<>>
           /\ streamed = <<>>

\* C13 witness: an enumeration whose client construction failed has returned
C13_Witness ==
    IsList /\ clientErr \in ClientErrors /\ pc = "done" /\ clientCalls = 1

\* C14: when the remote call of a lookup fails, the lookup returns that
\* error and no record, after exactly that one call.
C14_LookupFailureReturned ==
    (IsGet /\ responses # <<>> /\ ~responses[1].ok)
        => /\ pc = "done"
           /\ err = responses[1].err /\ err \in ApiErrors
           /\ result = NilItem
           /\ Len(requests) = 1 /\ Len(responses) = 1

\* C14 witness: a lookup whose call timed out has returned
C14_Witness ==
    /\ IsGet /\ Key = "ri-123" /\ pc = "done"
    /\ Len(responses) = 1 /\ responses[1].err = "api_timeout"
    /\ err = "api_timeout"


\* C16: the Page Request is fixed before the first fetch: no later step
\* changes the filter, the limit, the input or the paginator's page size,
\* and every fetch carries the caller's filter (nil when absent) and the page
\* size of the first fetch; the requests differ in the token alone.
C16_PageRequestFixed ==
    /\ [][qual' = qual /\ limit' = limit]_vars
    /\ [][(IsList /\ InputBuilt)
            => (input' = input /\ paginator'.Limit = paginator.Limit)]_vars
    /\ [](IsList => \A i \in 1..Len(requests) :
            /\ requests[i].ReservedInstanceId
                  = (IF qual.present THEN qual.str ELSE NilString)
            /\ requests[i].MaxResults = input.MaxResults
            /\ requests[i] = [requests[1] EXCEPT !.NextToken = requests[i].NextToken])

\* C16 witness: three fetches with a filter, each with another token
C16_Witness ==
    /\ IsList /\ qual = SomeQual("ri-123") /\ Len(requests) = 3
    /\ requests[1].NextToken = NilString
    /\ requests[2].NextToken = "t1"
    /\ requests[3].NextToken = "t2"
    /\ requests[3].ReservedInstanceId = "ri-123"

\* the consumer wants no more rows, given what has been emitted
StopSignalled == RowsRemaining(cancelled, limit, Len(streamed)) = 0

C18_PageSizeInRange ==
    IsList
        => /\ InputBuilt => (input.MaxResults \in 20..100 /\ paginator.Limit \in 20..100)
           /\ \A i \in 1..Len(requests) : requests[i].MaxResults \in 20..100

\* C18 witness: fetches under a ceiling of 0, of -1 or of 2^32+50
C18_Witness ==
    /\ IsList /\ limit.present
    /\ limit.val \in {I64Of(0), I64(-1, 65535, 65535), I64(1, 0, 50)}
    /\ Len(requests) = 2 /\ requests[2].MaxResults \in 20..100

\* C19: the stop signal is consulted only right after an emission.  After a
\* successful client construction the enumeration never ends without a
\* fetch; a step that ends it in success without emitting is taken only when
\* the paginator has no more pages; while the pages are empty it ends only
\* by exhaustion or failure and a fetch stays possible, whatever the
\* consumer's state.
C19_StopOnlyAfterEmission ==
    /\ []((IsList /\ pc = "done" /\ clientErr = NilErr) => Len(requests) >= 1)
    /\ [][(IsList /\ pc # "done" /\ pc' = "done" /\ err' = NilErr
            /\ streamed' = streamed)
          => ~HasMorePages(paginator)]_vars
    /\ []((IsList /\ pc = "done" /\ err = NilErr /\ Fetched(responses) = <<>>)
            => ~HasMorePages(paginator))
    /\ []((IsList /\ pc = "page" /\ HasMorePages(paginator)
            /\ Len(requests) < MaxFetch)
            => ENABLED NextPageOk)

\* C19 witness: ceiling 0 (the consumer wants no row from the start), three
\* empty pages fetched, ended by exhaustion
C19_Witness ==
    /\ IsList /\ LimitIn(0, 0) /\ StopSignalled
    /\ Len(requests) = 3 /\ Fetched(responses) = <<>>
    /\ pc = "done" /\ retLine = 174

====
